---------------------------- MODULE Spec2Model ----------------------------
(***************************************************************************)
(* Model of sonnet/python/ops/nest.py: flatten_iterable, pack_iterable_as  *)
(* and their helpers, over a tagged representation of Python values.       *)
(*                                                                         *)
(* A Python value is a record [kind, v, keys, items]:                      *)
(*   kind  - the concrete type: "str", "int", "ndarray" (leaves),          *)
(*           "list", "tuple", "namedtuple", "dict", "OrderedDict"          *)
(*   v     - the payload of a leaf ("" for a container)                    *)
(*   keys  - a mapping's keys in its native iteration order (<<>> else)    *)
(*   items - the children: positional for list/tuple/namedtuple, and for a *)
(*           mapping the values, items[i] belonging to keys[i]             *)
(* A raising call is modelled by a non-empty err field in what it returns. *)
(***************************************************************************)
EXTENDS Integers, Sequences, FiniteSets, TLC

VARIABLES structure, flat_iterable, source, op, ret, reads, walks, calls

vars == <<structure, flat_iterable, source, op, ret, reads, walks, calls>>

----------------------------------------------------------------------------
(* Bounds of the explored inputs *)

\* largest number of nodes (leaves and containers) of an enumerated structure
MaxNodes == 3

\* longest enumerated flat list handed to pack_iterable_as
MaxFlat == 4

----------------------------------------------------------------------------
(* Python values *)

Leaf(kind, v) == [kind |-> kind, v |-> v, keys |-> <<>>, items |-> <<>>]

Container(kind, items) == [kind |-> kind, v |-> "", keys |-> <<>>, items |-> items]

Mapping(kind, keys, items) == [kind |-> kind, v |-> "", keys |-> keys, items |-> items]

None == Leaf("NoneType", "None")

Ok(value) == [err |-> "", out |-> value]

Raise(e) == [err |-> e, out |-> None]

\* isinstance(x, dict): dict and its subclass collections.OrderedDict
IsDict(x) == x.kind \in {"dict", "OrderedDict"}

\* the namedtuple test of _iterable_like: a tuple with a _fields sequence of strings
IsNamedTuple(x) == x.kind = "namedtuple"

\* len(x) of a list, tuple or dict
PyLen(x) == Len(x.items)

\* iterable[key] of a dict
GetItem(d, key) == d.items[CHOOSE i \in 1..Len(d.keys) : d.keys[i] = key]

\* The keys used: the int key 1 and the str keys, each type in ascending order.
IntKeyOrder == <<"1">>

StrKeyOrder == <<"a", "b", "x", "y">>

KeyType(k) == IF \E i \in 1..Len(IntKeyOrder) : IntKeyOrder[i] = k THEN "int" ELSE "str"

KeyPos(k) ==
    LET order == IF KeyType(k) = "int" THEN IntKeyOrder ELSE StrKeyOrder
    IN  CHOOSE i \in 1..Len(order) : order[i] = k

\* k1 < k2 raises TypeError between an int and a str (Python 3)
Comparable(k1, k2) == KeyType(k1) = KeyType(k2)

KeyLess(k1, k2) == KeyPos(k1) < KeyPos(k2)

RECURSIVE InsertKey(_, _)
InsertKey(k, s) ==
    IF s = <<>> THEN <<k>>
    ELSE IF KeyLess(k, Head(s)) THEN <<k>> \o s
    ELSE <<Head(s)>> \o InsertKey(k, Tail(s))

RECURSIVE SortKeys(_)
SortKeys(ks) == IF ks = <<>> THEN <<>> ELSE InsertKey(Head(ks), SortKeys(Tail(ks)))

\* the builtin sorted(keys): TypeError as soon as two keys cannot be compared
sorted(ks) ==
    IF \A i, j \in 1..Len(ks) : Comparable(ks[i], ks[j])
    THEN [err |-> "", out |-> SortKeys(ks)]
    ELSE [err |-> "TypeError", out |-> <<>>]

----------------------------------------------------------------------------
(* nest.py *)

\* sorted() never raising: keys of different types ordered by their position
SortedUnchecked(dict_) == [err |-> "", out |-> SortKeys(dict_.keys)]

_sorted(dict_) == sorted(dict_.keys)

is_iterable(seq) ==
    IF seq.kind \in {"str", "ndarray", "Tensor"} THEN FALSE
    ELSE seq.kind \in {"list", "tuple", "namedtuple", "dict", "OrderedDict"}

\* for key in _sorted(iterable): the values yielded in the dict's own order
ValuesByPosition(iterable, ks) == IF ks.err # "" THEN ks ELSE [err |-> "", out |-> iterable.items]

\* for key in _sorted(iterable): yield iterable[key]
ValuesByKey(iterable, ks) ==
    IF ks.err # "" THEN ks
    ELSE [err |-> "", out |-> [i \in 1..Len(ks.out) |-> GetItem(iterable, ks.out[i])]]

\* the values in the iterable's own order, a dict's too
YieldValueNative(iterable) == [err |-> "", out |-> iterable.items]

_yield_value_from_iterable(iterable) ==
    IF IsDict(iterable) THEN ValuesByKey(iterable, _sorted(iterable))
    ELSE [err |-> "", out |-> iterable.items]

\* what one value yielded, followed by what the rest of the loop yields
YieldThen(first, rest) ==
    IF first.err # "" THEN first
    ELSE IF rest.err # "" THEN rest
    ELSE [err |-> "", out |-> first.out \o rest.out]

RECURSIVE _yield_flat_nest_from_iterable(_)
RECURSIVE YieldFlatLoop(_)
\* the for loop of _yield_flat_nest_from_iterable over the values still to visit
YieldFlatLoop(values) ==
    IF values = <<>> THEN [err |-> "", out |-> <<>>]
    ELSE YieldThen(IF is_iterable(Head(values))
                   THEN _yield_flat_nest_from_iterable(Head(values))
                   ELSE [err |-> "", out |-> <<Head(values)>>],
                   YieldFlatLoop(Tail(values)))

\* the loop over the values, unless getting them raised
YieldFlatOf(values) == IF values.err # "" THEN values ELSE YieldFlatLoop(values.out)

_yield_flat_nest_from_iterable(iterable) == YieldFlatOf(_yield_value_from_iterable(iterable))

\* list(generator): the list, unless the generator raised
ListOf(g) == IF g.err # "" THEN Raise(g.err) ELSE Ok(Container("list", g.out))

flatten_iterable(structure_) ==
    IF is_iterable(structure_) THEN ListOf(_yield_flat_nest_from_iterable(structure_))
    ELSE Ok(Container("list", <<structure_>>))

Min(a, b) == IF a < b THEN a ELSE b

\* dict(zip(keys, args)): zip stops at the shorter of the two
DictZip(keys, args) ==
    [k \in {keys[i] : i \in 1..Min(Len(keys), Len(args))} |->
        args[CHOOSE i \in 1..Min(Len(keys), Len(args)) : keys[i] = k]]

\* the result built with the keys in sorted order
SameTypeDictSorted(instance, result) ==
    Ok(Mapping(instance.kind, SortKeys(instance.keys),
               [i \in 1..Len(instance.keys) |-> result[SortKeys(instance.keys)[i]]]))

\* type(instance)((key, result[key]) for key in iterkeys(instance))
SameTypeDict(instance, result) ==
    IF \E i \in 1..Len(instance.keys) : instance.keys[i] \notin DOMAIN result
    THEN Raise("KeyError")
    ELSE Ok(Mapping(instance.kind, instance.keys,
                    [i \in 1..Len(instance.keys) |-> result[instance.keys[i]]]))

\* zip(iterkeys(instance), args): the keys paired in native order
DictLikeNative(instance, args, ks) ==
    IF ks.err # "" THEN Raise(ks.err) ELSE SameTypeDict(instance, DictZip(instance.keys, args))

\* the dict branch of _iterable_like, ks being _sorted(instance)
DictLike(instance, args, ks) ==
    IF ks.err # "" THEN Raise(ks.err) ELSE SameTypeDict(instance, DictZip(ks.out, args))

\* a dict instance rebuilt as the plain dict(zip(...))
IterableLikePlainDict(instance, args) ==
    IF IsDict(instance)
    THEN Ok(Mapping("dict", SortKeys(instance.keys), SubSeq(args, 1, Len(instance.keys))))
    ELSE Ok(Container(instance.kind, args))

_iterable_like(instance, args) ==
    IF IsDict(instance) THEN DictLike(instance, args, _sorted(instance))
    ELSE IF IsNamedTuple(instance)
    THEN \* type(instance)(*args): one positional argument per field
         IF Len(args) # Len(instance.items) THEN Raise("TypeError")
         ELSE Ok(Container(instance.kind, args))
    ELSE Ok(Container(instance.kind, args))

\* What a (partial) run of the packing helper hands back: the error raised if
\* any, the updated index, the packed list, and the record of what it did:
\* reads - the indices i of every flat[i] evaluated, in order
\* walks - every completed helper call: its structure, start and returned index
\* calls - every completed _iterable_like call: instance, args and result
Walked(err, index, packed, reads_, walks_, calls_) ==
    [err |-> err, index |-> index, packed |-> packed,
     reads |-> reads_, walks |-> walks_, calls |-> calls_]

Before(reads_, walks_, calls_, r) ==
    [r EXCEPT !.reads = reads_ \o @, !.walks = walks_ \o @, !.calls = calls_ \o @]

\* the increment left out
NextIndexStuck(index) == index

\* index += 1 after packed.append(flat[index])
NextIndex(index) == index + 1

\* the index the recursive call started from
IndexBefore(sub) == sub.walks[Len(sub.walks)].index

\* index = new_index after the recursive call
IndexAfter(sub) == sub.index

RECURSIVE _packed_iterable_nest_with_indices(_, _, _)
RECURSIVE PackLoop(_, _, _, _)

\* packed.append(_iterable_like(s, child)); index = new_index; and the loop goes on
PackChild(values, flat, packed, sub, like) ==
    IF like.err # ""
    THEN Walked(like.err, sub.index, packed, sub.reads, sub.walks, sub.calls)
    ELSE Before(sub.reads, sub.walks,
                Append(sub.calls, [instance |-> Head(values), args |-> sub.packed,
                                   result |-> like.out]),
                PackLoop(Tail(values), flat, IndexAfter(sub), Append(packed, like.out)))

\* after new_index, child = _packed_iterable_nest_with_indices(s, flat, index)
PackSub(values, flat, packed, sub) ==
    IF sub.err # "" THEN sub
    ELSE PackChild(values, flat, packed, sub, _iterable_like(Head(values), sub.packed))

\* packed.append(flat[index]); index += 1; and the loop goes on
PackLeaf(values, flat, index, packed) ==
    IF index >= PyLen(flat)
    THEN Walked("IndexError", index, packed, <<index>>, <<>>, <<>>)
    ELSE Before(<<index>>, <<>>, <<>>,
                PackLoop(Tail(values), flat, NextIndex(index),
                         Append(packed, flat.items[index + 1])))

\* the for loop of _packed_iterable_nest_with_indices over the values still to visit
PackLoop(values, flat, index, packed) ==
    IF values = <<>> THEN Walked("", index, packed, <<>>, <<>>, <<>>)
    ELSE IF is_iterable(Head(values))
    THEN PackSub(values, flat, packed,
                 _packed_iterable_nest_with_indices(Head(values), flat, index))
    ELSE PackLeaf(values, flat, index, packed)

\* return index, packed
Returned(structure_, index, r) ==
    IF r.err # "" THEN r
    ELSE [r EXCEPT !.walks = Append(@, [structure |-> structure_, index |-> index,
                                        new_index |-> r.index])]

PackValues(structure_, flat, index, values) ==
    IF values.err # "" THEN Walked(values.err, index, <<>>, <<>>, <<>>, <<>>)
    ELSE Returned(structure_, index, PackLoop(values.out, flat, index, <<>>))

_packed_iterable_nest_with_indices(structure_, flat, index) ==
    PackValues(structure_, flat, index, _yield_value_from_iterable(structure_))

\* What pack_iterable_as hands back: error or value, and the helper's record.
Packed(err, out, reads_, walks_, calls_) ==
    [err |-> err, out |-> out, reads |-> reads_, walks |-> walks_, calls |-> calls_]

\* return _iterable_like(structure, packed)
PackReturn(structure_, r, like) ==
    IF like.err # "" THEN Packed(like.err, None, r.reads, r.walks, r.calls)
    ELSE Packed("", like.out, r.reads, r.walks,
                Append(r.calls, [instance |-> structure_, args |-> r.packed,
                                 result |-> like.out]))

\* after _, packed = _packed_iterable_nest_with_indices(structure, flat_iterable, 0)
PackTop(structure_, r) ==
    IF r.err # "" THEN Packed(r.err, None, r.reads, r.walks, r.calls)
    ELSE PackReturn(structure_, r, _iterable_like(structure_, r.packed))

\* only a flat_iterable that is too long
ArityTooMany(flat_structure, flat_iterable_) == PyLen(flat_structure) < PyLen(flat_iterable_)

\* the arity test of pack_iterable_as
ArityMismatch(flat_structure, flat_iterable_) == PyLen(flat_structure) # PyLen(flat_iterable_)

\* pack_iterable_as from flat_structure = flatten_iterable(structure) on
PackChecked(structure_, flat_iterable_, flat_structure) ==
    IF flat_structure.err # "" THEN Packed(flat_structure.err, None, <<>>, <<>>, <<>>)
    ELSE IF ArityMismatch(flat_structure.out, flat_iterable_)
    THEN Packed("ValueError", None, <<>>, <<>>, <<>>)
    ELSE PackTop(structure_, _packed_iterable_nest_with_indices(structure_, flat_iterable_, 0))

\* the test the message words: len(flat_iterable) > 1
PackScalarAtMostOne(flat_iterable_) ==
    IF PyLen(flat_iterable_) > 1 THEN Packed("ValueError", None, <<>>, <<>>, <<>>)
    ELSE IF PyLen(flat_iterable_) = 0 THEN Packed("IndexError", None, <<>>, <<>>, <<>>)
    ELSE Packed("", flat_iterable_.items[1], <<>>, <<>>, <<>>)

\* the scalar branch of pack_iterable_as
PackScalar(flat_iterable_) ==
    IF PyLen(flat_iterable_) # 1 THEN Packed("ValueError", None, <<>>, <<>>, <<>>)
    ELSE Packed("", flat_iterable_.items[1], <<>>, <<>>, <<>>)

pack_iterable_as(structure_, flat_iterable_) ==
    IF ~is_iterable(flat_iterable_) THEN Packed("TypeError", None, <<>>, <<>>, <<>>)
    ELSE IF ~is_iterable(structure_) THEN PackScalar(flat_iterable_)
    ELSE PackChecked(structure_, flat_iterable_, flatten_iterable(structure_))

----------------------------------------------------------------------------
(* The inputs explored *)

LeafVals == {Leaf("str", "a"), Leaf("int", "1")}

SeqKinds == {"list", "tuple", "namedtuple"}

DictKinds == {"dict", "OrderedDict"}

KeyVals == {"1", "x", "y"}

\* the sequences of n distinct keys: the native orders of the n-key mappings
KeySeqs(n) == {ks \in [1..n -> KeyVals] : \A i, j \in 1..n : ks[i] = ks[j] => i = j}

RECURSIVE Structs(_)
RECURSIVE Forests(_)
\* the sequences of structures with m nodes in all
Forests(m) ==
    IF m = 0 THEN {<<>>}
    ELSE UNION {{<<s>> \o f : s \in Structs(k), f \in Forests(m - k)} : k \in 1..m}

\* the structures with exactly n nodes: a leaf, or a container of a forest of
\* n - 1 nodes, a mapping having as many distinct keys as children
Structs(n) ==
    LET fs == Forests(n - 1)
    IN  (IF n = 1 THEN LeafVals ELSE {})
        \cup {Container(kind, f) : kind \in SeqKinds, f \in fs}
        \cup UNION {{Mapping(kind, ks, f) : kind \in DictKinds, ks \in KeySeqs(c),
                                           f \in {g \in fs : Len(g) = c}}
                    : c \in 0..Cardinality(KeyVals)}

\* ["a", {"y": 2, "x": 1}, ("b", "c")] and ["p", 9, 8, "q", "r"]
NestedExampleTemplate ==
    Container("list", <<Leaf("str", "a"),
                        Mapping("dict", <<"y", "x">>, <<Leaf("int", "2"), Leaf("int", "1")>>),
                        Container("tuple", <<Leaf("str", "b"), Leaf("str", "c")>>)>>)

NestedExampleFlat ==
    Container("list", <<Leaf("str", "p"), Leaf("int", "9"), Leaf("int", "8"),
                        Leaf("str", "q"), Leaf("str", "r")>>)

\* {"b": 2, "a": 1}
TwoKeyExample == Mapping("dict", <<"b", "a">>, <<Leaf("int", "2"), Leaf("int", "1")>>)

\* {1: "x", "y": "z"}, bare and two levels down
UnsortableExample == Mapping("dict", <<"1", "y">>, <<Leaf("str", "x"), Leaf("str", "z")>>)

DeepUnsortableExample ==
    Container("list", <<Leaf("str", "a"),
                        Container("tuple", <<Leaf("int", "1"), UnsortableExample>>)>>)

\* an OrderedDict holding a list and a dict, and a numpy array on its own
DeepMappingExample ==
    Mapping("OrderedDict", <<"y", "x">>,
            <<Container("list", <<Leaf("str", "a"), Leaf("int", "1")>>),
              Mapping("dict", <<"b", "a">>, <<Leaf("int", "2"), Leaf("str", "b")>>)>>)

ArrayExample == Leaf("ndarray", "A")

\* the examples, explored besides the structures of at most MaxNodes nodes
Examples ==
    {NestedExampleTemplate, TwoKeyExample, UnsortableExample, DeepUnsortableExample,
     DeepMappingExample, ArrayExample}

FlatNames == <<"f1", "f2", "f3", "f4", "f5", "f6", "f7", "f8">>

\* the list of the first k of the distinct leaves f1, f2, ...
FlatOf(k) == Container("list", [i \in 1..k |-> Leaf("str", FlatNames[i])])

\* lists of 0..MaxFlat distinct leaves, the example's list, a tuple, a flat list
\* holding a list, and a string (not iterable for is_iterable)
FlatInputs ==
    {FlatOf(k) : k \in 0..MaxFlat}
    \cup {NestedExampleFlat,
          Container("tuple", <<Leaf("int", "7"), Leaf("int", "7")>>),
          Container("list", <<Container("list", <<Leaf("int", "7"), Leaf("int", "8")>>)>>),
          Leaf("str", "pq")}

\* items in the order p, a bijection on 1..Len(items)
Permuted(items, p) == [i \in 1..Len(items) |-> items[p[i]]]

Bijections(n) == {p \in [1..n -> 1..n] : \A i, j \in 1..n : p[i] = p[j] => i = j}

RECURSIVE Variants(_)
RECURSIVE VariantSeqs(_)
\* the sequences of variants of the items, position by position
VariantSeqs(items) ==
    IF items = <<>> THEN {<<>>}
    ELSE {<<h>> \o t : h \in Variants(Head(items)), t \in VariantSeqs(Tail(items))}

\* s with any of its mappings, at any depth, given another mapping kind and/or
\* another native order (same keys, each key with the same value)
Variants(s) ==
    IF IsDict(s)
    THEN {Mapping(kind, Permuted(s.keys, p), Permuted(vs, p)) :
            kind \in DictKinds, p \in Bijections(Len(s.keys)), vs \in VariantSeqs(s.items)}
    ELSE IF is_iterable(s) THEN {[s EXCEPT !.items = vs] : vs \in VariantSeqs(s.items)}
    ELSE {s}

Replacements ==
    {Leaf("str", "z"), Container("list", <<>>), Container("list", <<Leaf("str", "z")>>)}

\* the mapping s with the value of one key replaced
Reshaped(s) ==
    IF IsDict(s)
    THEN {[s EXCEPT !.items[i] = r] : i \in 1..Len(s.items), r \in Replacements}
    ELSE {}

\* the templates a flattened structure is packed back into: itself, its
\* variants, and variants with one value of another shape
RepackTemplates(s) == Variants(s) \cup UNION {Reshaped(v) : v \in Variants(s)}

----------------------------------------------------------------------------
(* The caller: one structure, flattened and/or packed *)

Init ==
    /\ \/ \E n \in 1..MaxNodes : structure \in Structs(n)
       \/ structure \in Examples
    /\ flat_iterable = None
    /\ source = None
    /\ op = "idle"
    /\ ret = Ok(None)
    /\ reads = <<>>
    /\ walks = <<>>
    /\ calls = <<>>

\* ret = flatten_iterable(structure)
FlattenIterable ==
    /\ op = "idle"
    /\ ret' = flatten_iterable(structure)
    /\ source' = structure
    /\ op' = "flatten"
    /\ UNCHANGED <<structure, flat_iterable, reads, walks, calls>>

\* the call pack_iterable_as(template, flat) that returned or raised r
Called(template, flat, r) ==
    /\ structure' = template
    /\ flat_iterable' = flat
    /\ ret' = [err |-> r.err, out |-> r.out]
    /\ reads' = r.reads
    /\ walks' = r.walks
    /\ calls' = r.calls

Pack(template, flat) == Called(template, flat, pack_iterable_as(template, flat))

\* ret = pack_iterable_as(structure, flat) for a flat value of the caller's
PackIterableAs ==
    /\ op = "idle"
    /\ \E flat \in FlatInputs : Pack(structure, flat)
    /\ op' = "pack"
    /\ UNCHANGED source

\* ret = pack_iterable_as(template, flatten_iterable(source)): the template is
\* the flattened structure itself or one with the same keys
PackFlattened ==
    /\ op = "flatten"
    /\ ret.err = ""
    /\ \E template \in RepackTemplates(source) : Pack(template, ret.out)
    /\ op' = "repack"
    /\ UNCHANGED source

\* ret = flatten_iterable(pack_iterable_as(structure, flat_iterable))
FlattenPacked ==
    /\ op = "pack"
    /\ ret.err = ""
    /\ ret' = flatten_iterable(ret.out)
    /\ source' = ret.out
    /\ op' = "reflatten"
    /\ UNCHANGED <<structure, flat_iterable, reads, walks, calls>>

Next == FlattenIterable \/ PackIterableAs \/ PackFlattened \/ FlattenPacked

Spec == Init /\ [][Next]_vars

----------------------------------------------------------------------------
(* Reference notions the properties are stated with *)

IsLeaf(s) == s.kind \in {"str", "int", "ndarray", "NoneType"}

IsComposite(s) == s.kind \in SeqKinds \cup DictKinds

KeySet(s) == {s.keys[i] : i \in 1..Len(s.keys)}

\* every mapping of s, at any depth, has pairwise comparable keys
RECURSIVE SortableKeys(_)
SortableKeys(s) ==
    /\ \A k1, k2 \in KeySet(s) : Comparable(k1, k2)
    /\ \A i \in 1..Len(s.items) : SortableKeys(s.items[i])

\* the i-th smallest key of a mapping: the one with exactly i - 1 smaller keys
KeyOfRank(s, i) ==
    CHOOSE k \in KeySet(s) : Cardinality({j \in KeySet(s) : KeyLess(j, k)}) = i - 1

\* the children in traversal order: positional, or by ascending key
RefChildren(s) ==
    IF IsDict(s) THEN [i \in 1..Len(s.keys) |-> GetItem(s, KeyOfRank(s, i))] ELSE s.items

\* the depth-first leaf listing
RECURSIVE RefListing(_)
RECURSIVE RefListingOver(_)
RefListingOver(children) ==
    IF children = <<>> THEN <<>>
    ELSE RefListing(Head(children)) \o RefListingOver(Tail(children))

RefListing(s) == IF IsLeaf(s) THEN <<s>> ELSE RefListingOver(RefChildren(s))

\* the number of leaf positions
RECURSIVE LeafCount(_)
RECURSIVE LeafCountOver(_)
LeafCountOver(children) ==
    IF children = <<>> THEN 0 ELSE LeafCount(Head(children)) + LeafCountOver(Tail(children))

LeafCount(s) == IF IsLeaf(s) THEN 1 ELSE LeafCountOver(s.items)

\* the composite nodes below and including a composite s, children first, in
\* traversal order
RECURSIVE RefComposites(_)
RECURSIVE RefCompositesOver(_)
RefCompositesOver(children) ==
    IF children = <<>> THEN <<>>
    ELSE RefComposites(Head(children)) \o RefCompositesOver(Tail(children))

RefComposites(s) == IF IsLeaf(s) THEN <<>> ELSE Append(RefCompositesOver(RefChildren(s)), s)

\* every node of s
RECURSIVE Nodes(_)
Nodes(s) == {s} \cup UNION {Nodes(s.items[i]) : i \in 1..Len(s.items)}

\* Python's ==: a dict equals a dict or OrderedDict with the same items, two
\* OrderedDicts also agree on the order; a namedtuple equals the tuple of its fields
RECURSIVE PyEq(_, _)
PyEq(a, b) ==
    IF IsDict(a) /\ IsDict(b)
    THEN /\ KeySet(a) = KeySet(b)
         /\ \A k \in KeySet(a) : PyEq(GetItem(a, k), GetItem(b, k))
         /\ (a.kind = "OrderedDict" /\ b.kind = "OrderedDict") => a.keys = b.keys
    ELSE IF \/ (a.kind \in {"tuple", "namedtuple"} /\ b.kind \in {"tuple", "namedtuple"})
            \/ (a.kind = "list" /\ b.kind = "list")
    THEN /\ Len(a.items) = Len(b.items)
         /\ \A i \in 1..Len(a.items) : PyEq(a.items[i], b.items[i])
    ELSE a = b

\* the same key -> value associations at every mapping, whatever the mappings'
\* kinds and native orders; everything else identical
RECURSIVE SameAssociations(_, _)
SameAssociations(a, b) ==
    IF IsDict(a) /\ IsDict(b)
    THEN /\ KeySet(a) = KeySet(b)
         /\ \A k \in KeySet(a) : SameAssociations(GetItem(a, k), GetItem(b, k))
    ELSE IF IsComposite(a) /\ a.kind = b.kind
    THEN /\ Len(a.items) = Len(b.items)
         /\ \A i \in 1..Len(a.items) : SameAssociations(a.items[i], b.items[i])
    ELSE a = b

\* the same structure up to leaf values and the mappings' kinds and native orders
RECURSIVE SameShape(_, _)
SameShape(a, b) ==
    IF IsDict(a) /\ IsDict(b)
    THEN /\ KeySet(a) = KeySet(b)
         /\ \A k \in KeySet(a) : SameShape(GetItem(a, k), GetItem(b, k))
    ELSE IF IsComposite(a) /\ a.kind = b.kind
    THEN /\ Len(a.items) = Len(b.items)
         /\ \A i \in 1..Len(a.items) : SameShape(a.items[i], b.items[i])
    ELSE IsLeaf(a) /\ IsLeaf(b)

\* s with its leaves blanked: the container kinds, nesting, keys and native orders
RECURSIVE Skeleton(_)
Skeleton(s) ==
    IF IsLeaf(s) THEN None ELSE [s EXCEPT !.items = [i \in 1..Len(s.items) |-> Skeleton(s.items[i])]]

packing == op \in {"pack", "repack"}

\* a pack_iterable_as call whose flat_iterable is a list or tuple
FlatIsList == packing /\ flat_iterable.kind \in {"list", "tuple"}

----------------------------------------------------------------------------
(* Properties *)

\* C1: round trip. Flattening a structure whose mappings have comparable keys
\* succeeds, and packing the result into that same structure succeeds and
\* returns the structure itself: same kinds, nesting, keys and leaves.
RoundTripLaw ==
    /\ (op = "flatten" /\ SortableKeys(source)) => ret.err = ""
    /\ (op = "repack" /\ structure = source) => (ret.err = "" /\ ret.out = source)

RoundTripWitness ==
    /\ op = "repack"
    /\ structure = source
    /\ source = DeepMappingExample
    /\ ret.out = DeepMappingExample

\* C2: flatten_iterable returns the depth-first leaf listing: [S] for a leaf S,
\* else the children's listings in positional order, or in ascending key order
\* for a mapping; all its elements are leaves, and {"b": 2, "a": 1} gives [1, 2].
FlattenIsDepthFirstListing ==
    (op \in {"flatten", "reflatten"} /\ SortableKeys(source)) =>
        /\ ret.err = ""
        /\ ret.out = Container("list", RefListing(source))
        /\ \A i \in 1..Len(ret.out.items) : IsLeaf(ret.out.items[i])
        /\ source = TwoKeyExample =>
               ret.out.items = <<Leaf("int", "1"), Leaf("int", "2")>>
        /\ IsLeaf(source) => ret.out.items = <<source>>

FlattenListingWitness ==
    /\ op = "flatten"
    /\ source = NestedExampleTemplate
    /\ ret.out.items = <<Leaf("str", "a"), Leaf("int", "1"), Leaf("int", "2"),
                         Leaf("str", "b"), Leaf("str", "c")>>

\* C3: a composite template with comparable keys and a flat list of another
\* length than the template's leaf count: the call raises ValueError, returns
\* nothing and has read and rebuilt nothing.
ArityMismatchFails ==
    (/\ FlatIsList
     /\ IsComposite(structure)
     /\ SortableKeys(structure)
     /\ PyLen(flat_iterable) # LeafCount(structure)) =>
        /\ ret.err = "ValueError"
        /\ ret.out = None
        /\ reads = <<>>
        /\ calls = <<>>

ArityMismatchWitness ==
    /\ op = "pack"
    /\ structure = TwoKeyExample
    /\ PyLen(flat_iterable) = 1
    /\ ret.err = "ValueError"

\* what packing the nested example returned: a list of the leaf p, a dict
\* with x -> atX and y -> atY, and the tuple (q, r)
NestedExampleReturns(atX, atY) ==
    /\ ret.err = ""
    /\ ret.out.kind = "list"
    /\ Len(ret.out.items) = 3
    /\ ret.out.items[1] = Leaf("str", "p")
    /\ ret.out.items[2].kind = "dict"
    /\ KeySet(ret.out.items[2]) = {"x", "y"}
    /\ GetItem(ret.out.items[2], "x") = Leaf("int", atX)
    /\ GetItem(ret.out.items[2], "y") = Leaf("int", atY)
    /\ ret.out.items[3] = Container("tuple", <<Leaf("str", "q"), Leaf("str", "r")>>)

NestedExamplePacked ==
    op = "pack" /\ structure = NestedExampleTemplate /\ flat_iterable = NestedExampleFlat

\* C4 as stated: the nested example packs to ["p", {"x": 8, "y": 9}, ("q", "r")].
NestedExampleAsStated == NestedExamplePacked => NestedExampleReturns("8", "9")

\* C4 as amended: the nested example packs to ["p", {"x": 9, "y": 8}, ("q", "r")]:
\* the second flat value, 9, goes to the smaller key x and the third, 8, to y.
NestedExampleAmended == NestedExamplePacked => NestedExampleReturns("9", "8")

NestedExampleWitness == NestedExamplePacked /\ ret.err = ""

\* a repack of a flattened mapping into a mapping with the same keys but of
\* another kind and/or native order
CrossKindRepacked ==
    /\ op = "repack"
    /\ IsDict(source)
    /\ IsDict(structure)
    /\ KeySet(structure) = KeySet(source)
    /\ (structure.kind # source.kind \/ structure.keys # source.keys)

\* C5 as stated: any such repack returns a mapping of the template's kind in
\* which every key has the value it has in the flattened mapping.
CrossKindRepackAsStated ==
    CrossKindRepacked =>
        /\ ret.err = ""
        /\ ret.out.kind = structure.kind
        /\ KeySet(ret.out) = KeySet(source)
        /\ \A k \in KeySet(source) : PyEq(GetItem(ret.out, k), GetItem(source, k))

\* C5 as amended: when the template is the flattened structure up to leaf
\* values and the kinds and native orders of its mappings (at any depth), the
\* repack returns the template's kinds, nesting, keys and native orders with the
\* flattened structure's key -> value associations at every mapping.
CrossKindRepackAmended ==
    (op = "repack" /\ SameShape(structure, source)) =>
        /\ ret.err = ""
        /\ Skeleton(ret.out) = Skeleton(structure)
        /\ SameAssociations(ret.out, source)

CrossKindRepackWitness ==
    /\ CrossKindRepacked
    /\ source = DeepMappingExample
    /\ structure.kind = "dict"
    /\ structure.keys = <<"x", "y">>
    /\ GetItem(structure, "x").kind = "OrderedDict"
    /\ GetItem(structure, "x").keys = <<"a", "b">>
    /\ ret.err = ""

\* C6: a structure holding, at any depth, a mapping whose keys are not pairwise
\* comparable: flatten_iterable raises TypeError, and so does pack_iterable_as
\* with it as template and a list of any length, having read and rebuilt nothing.
UnsortableKeysFail ==
    /\ (op = "flatten" /\ ~SortableKeys(source)) => (ret.err = "TypeError" /\ ret.out = None)
    /\ (FlatIsList /\ ~SortableKeys(structure)) =>
           (ret.err = "TypeError" /\ ret.out = None /\ reads = <<>> /\ calls = <<>>)

UnsortableKeysWitness ==
    /\ op = "pack"
    /\ structure = DeepUnsortableExample
    /\ PyLen(flat_iterable) # LeafCount(structure)
    /\ ret.err = "TypeError"

\* C7: a leaf template: a flat list of exactly one element gives that element,
\* a list of any other length (none, two or more) raises ValueError.
ScalarTemplate ==
    (FlatIsList /\ IsLeaf(structure)) =>
        IF PyLen(flat_iterable) = 1
        THEN ret.err = "" /\ ret.out = flat_iterable.items[1]
        ELSE ret.err = "ValueError" /\ ret.out = None

ScalarTemplateWitness ==
    /\ op = "pack"
    /\ structure = ArrayExample
    /\ PyLen(flat_iterable) = 0
    /\ ret.err = "ValueError"

\* the _iterable_like calls of the last pack_iterable_as made for a mapping
DictCalls == SelectSeq(calls, LAMBDA c : IsDict(c.instance))

\* C8: in a pack that returns, every mapping of the template is rebuilt once,
\* and the rebuilt mapping is of that mapping's kind, has its keys in its native
\* order, gives the i-th rebuilt child to the i-th smallest key, and is part of
\* what is returned.
MappingReconstruction ==
    (packing /\ ret.err = "" /\ IsComposite(structure)) =>
        /\ [i \in 1..Len(DictCalls) |-> DictCalls[i].instance]
               = SelectSeq(RefComposites(structure), IsDict)
        /\ \A i \in 1..Len(DictCalls) :
               LET c == DictCalls[i]
               IN  /\ c.result.kind = c.instance.kind
                   /\ c.result.keys = c.instance.keys
                   /\ Len(c.args) = Len(c.instance.keys)
                   /\ \A j \in 1..Len(c.args) :
                          GetItem(c.result, KeyOfRank(c.instance, j)) = c.args[j]
                   /\ c.result \in Nodes(ret.out)

MappingReconstructionWitness ==
    /\ op = "pack"
    /\ structure = DeepMappingExample
    /\ ret.err = ""
    /\ Len(DictCalls) = 2

\* a pack_iterable_as call that went past the arity test
PastArityTest ==
    /\ FlatIsList
    /\ IsComposite(structure)
    /\ SortableKeys(structure)
    /\ PyLen(flat_iterable) = LeafCount(structure)

\* C9: a pack past the arity test reads flat[0], flat[1], ..., flat[n-1] once
\* each in that order and nothing else, every helper call on a sub-structure
\* returns its start index plus the sub-structure's leaf count, one call per
\* composite node, and the top-level call goes from 0 to len(flat).
LeafConsumption ==
    PastArityTest =>
        /\ ret.err = ""
        /\ reads = [i \in 1..PyLen(flat_iterable) |-> i - 1]
        /\ [i \in 1..Len(walks) |-> walks[i].structure] = RefComposites(structure)
        /\ \A i \in 1..Len(walks) :
               walks[i].new_index = walks[i].index + LeafCount(walks[i].structure)
        /\ walks[Len(walks)].index = 0
        /\ walks[Len(walks)].new_index = PyLen(flat_iterable)

LeafConsumptionWitness ==
    /\ op = "pack"
    /\ structure = NestedExampleTemplate
    /\ reads = <<0, 1, 2, 3, 4>>
    /\ Len(walks) = 3

\* C10: flattening what a pack returned gives back the flat list that was
\* packed, element for element, when that list holds leaves only.
InverseRoundTrip ==
    (op = "reflatten" /\ \A i \in 1..PyLen(flat_iterable) : IsLeaf(flat_iterable.items[i])) =>
        /\ ret.err = ""
        /\ ret.out.items = flat_iterable.items

InverseRoundTripWitness ==
    /\ op = "reflatten"
    /\ structure = NestedExampleTemplate
    /\ flat_iterable = NestedExampleFlat
    /\ ret.out = NestedExampleFlat

=============================================================================
